---- MODULE Spec2Model ----
\* State-machine model of src/EnhancedFontDiagnosticTool.py: the tool object
\* (system, report), the part of the environment its checks read (environment
\* variables, font directories and the font files in them) and the menu loop
\* of main() that drives one operation per selection.
EXTENDS Integers, Sequences, FiniteSets, TLC

VARIABLES
    system,       \* self.system
    report,       \* self.report
    environ,      \* os.environ: the defined variables among WINDIR, LOCALAPPDATA
    dirs,         \* the font directories that exist
    files,        \* the font files in them: records [dir, name, content]
    pc,           \* "menu", the check run_full_diagnostics is at, or "exited"
    exc,          \* the exception that ended the process, or "none"
    printed,      \* the sections generate_report printed last
    report_file,  \* the persisted report: <<>> or <<the dumped report>>
    last_cmd,     \* the last external command run and how it ended
    passes,       \* full diagnostic passes started
    installs,     \* install_font calls made
    anomalies,    \* abnormal environment facts met so far
    verified,     \* direct calls of verify_font_integrity: <<>> or <<the call>>
    scanned       \* direct calls of check_ide_fonts: <<>> or <<the last call>>

vars == <<system, report, environ, dirs, files, pc, exc, printed, report_file,
          last_cmd, passes, installs, anomalies, verified, scanned>>

\* ---------------------------------------------------------------- bounds
\* Full diagnostic passes selected from the menu in one process.
MaxPasses == 2
\* install_font selections in one process.
MaxInstalls == 1
\* Font files present in the font directories when the tool starts.
MaxFiles == 1
\* Direct calls of check_ide_fonts on one tool object.
MaxScans == 2
\* Abnormal facts of the environment that leave a trace in one process: a font
\* directory that does not exist at start, a missing or failing external
\* command, an unreadable file or directory, an application finding, a
\* non-standard scaling value, an unwritable report path. An abnormal answer
\* that a handler swallows without any effect is not counted.
MaxAnomalies == 1

\* ------------------------------------------------------- platform resolver
\* platform.system() values: the three supported ones and an unrecognized one.
Systems == {"Windows", "Linux", "Darwin", "FreeBSD"}

EnvVars == {"WINDIR", "LOCALAPPDATA"}

\* get_font_dirs: the directory list of a platform (paths kept symbolic).
FontDirList(sys) ==
    CASE sys = "Windows" -> <<"%WINDIR%/Fonts", "%LOCALAPPDATA%/Microsoft/Windows/Fonts">>
      [] sys = "Linux"   -> <<"/usr/share/fonts", "/usr/local/share/fonts", "~/.fonts">>
      [] sys = "Darwin"  -> <<"/Library/Fonts", "/System/Library/Fonts", "~/Library/Fonts">>
      [] OTHER           -> <<>>

\* get_font_dirs raises KeyError when os.environ[...] has no such variable.
get_font_dirs_raises(sys, env) ==
    sys = "Windows" /\ ~({"WINDIR", "LOCALAPPDATA"} \subseteq env)

get_font_dirs(sys) == FontDirList(sys)

\* The critical font list, written twice in the source with the same content
\* (check_system_fonts and check_font_integrity).
required_fonts(sys) ==
    CASE sys = "Windows" -> <<"Arial.ttf", "Times New Roman.ttf", "Segoe UI.ttf">>
      [] sys = "Linux"   -> <<"DejaVuSans.ttf", "FreeSans.ttf">>
      [] sys = "Darwin"  -> <<"Helvetica.dfont", "San Francisco.ttf">>
      [] OTHER           -> <<>>

critical_fonts(sys) ==
    CASE sys = "Windows" -> <<"Arial.ttf", "Times New Roman.ttf", "Segoe UI.ttf">>
      [] sys = "Linux"   -> <<"DejaVuSans.ttf", "FreeSans.ttf">>
      [] sys = "Darwin"  -> <<"Helvetica.dfont", "San Francisco.ttf">>
      [] OTHER           -> <<>>

office_fonts == <<"Calibri.ttf", "Cambria.ttf", "Consolas.ttf">>

\* ------------------------------------------------------ integrity verifier
known_font_hashes ==
    [n \in {"Arial.ttf", "Times New Roman.ttf", "Segoe UI.ttf", "DejaVuSans.ttf",
            "FreeSans.ttf", "Helvetica.dfont", "San Francisco.ttf"} |->
        CASE n = "Arial.ttf"           -> "a1b2c3d4e5f678901234567890123456"
          [] n = "Times New Roman.ttf" -> "f6e5d4c3b2a198765432109876543210"
          [] n = "Segoe UI.ttf"        -> "1234567890abcdef1234567890abcdef"
          [] n = "DejaVuSans.ttf"      -> "abcdef1234567890abcdef1234567890"
          [] n = "FreeSans.ttf"        -> "0987654321abcdef0987654321abcdef"
          [] n = "Helvetica.dfont"     -> "aabbccddeeff00112233445566778899"
          [] n = "San Francisco.ttf"   -> "11223344556677889900aabbccddeeff"]

\* File contents are symbolic byte strings: "bytes of <name>" is the content
\* whose digest is the reference digest recorded for <name>, "altered" is any
\* other content.
Genuine(name) == name
AlteredBytes == "altered"

\* hashlib.md5(content).hexdigest(): a function of the content alone.
md5(content) ==
    IF content \in DOMAIN known_font_hashes
    THEN known_font_hashes[content]
    ELSE IF content = AlteredBytes
         THEN "d41d8cd98f00b204e9800998ecf8427e"
         ELSE "9e107d9d372bb6826bd81d3542a419d6"

\* verify_font_integrity without the "known_hash and" guard: a name without an
\* entry is compared with no digest and fails.
verify_font_integrity_noguard(content, readable, font_name) ==
    /\ readable
    /\ font_name \in DOMAIN known_font_hashes
    /\ md5(content) = known_font_hashes[font_name]

\* verify_font_integrity(font_path, font_name): content is the file's bytes,
\* readable is FALSE when open()/read() raises.
verify_font_integrity(content, readable, font_name) ==
    IF ~readable
    THEN FALSE
    ELSE LET file_hash == md5(content)
             has_known == font_name \in DOMAIN known_font_hashes
         IN  IF has_known /\ file_hash # known_font_hashes[font_name]
             THEN FALSE
             ELSE TRUE

\* ------------------------------------------------------------- filesystem
\* os.path.exists(os.path.join(font_dir, font)).
Exists(fs, d, n) == \E f \in fs : f.dir = d /\ f.name = n

ContentOf(fs, d, n) == (CHOOSE f \in fs : f.dir = d /\ f.name = n).content

\* First directory of the list that holds the font, 0 when none does.
FirstDirWith(fs, dlist, n) ==
    IF \E i \in DOMAIN dlist : Exists(fs, dlist[i], n)
    THEN CHOOSE i \in DOMAIN dlist :
            /\ Exists(fs, dlist[i], n)
            /\ \A j \in 1..(i - 1) : ~Exists(fs, dlist[j], n)
    ELSE 0

Range(s) == {s[i] : i \in DOMAIN s}

Entry(msg, args) == [msg |-> msg, args |-> args]

\* ------------------------------------------------------------------ report
\* __init__: the report of a fresh tool object.
NewReport(sys) ==
    [system |-> sys,
     issues |-> <<>>,
     suggestions |-> <<>>,
     missing_fonts |-> <<>>,
     corrupted_fonts |-> <<>>,
     font_cache_issues |-> FALSE,
     software_specific_issues |-> <<>>,
     dpi_scaling_issues |-> <<>>,
     font_integrity_issues |-> <<>>]

\* defaultdict(list): report['software_specific_issues'][key].append(e).
AppendUnder(ssi, key, e) ==
    IF key \in DOMAIN ssi
    THEN [ssi EXCEPT ![key] = Append(@, e)]
    ELSE [k \in DOMAIN ssi \cup {key} |-> IF k = key THEN <<e>> ELSE ssi[k]]

\* ------------------------------------------------- directory and presence
\* check_font_directories (body after get_font_dirs returned): one issue and
\* one suggestion per directory that is missing or not readable. noaccess is the
\* set of existing directories for which os.access(d, R_OK) answers False.
DirEntries(dlist, existing, noaccess, missing_msg, noaccess_msg) ==
    LET bad == SelectSeq(dlist, LAMBDA d : d \notin existing \/ d \in noaccess)
    IN  [i \in DOMAIN bad |->
            IF bad[i] \notin existing
            THEN Entry(missing_msg, <<bad[i]>>)
            ELSE Entry(noaccess_msg, <<bad[i]>>)]

check_font_directories_report(rep, dlist, existing, noaccess) ==
    [rep EXCEPT
        !.issues = @ \o DirEntries(dlist, existing, noaccess,
                                   "font directory missing", "font directory not accessible"),
        !.suggestions = @ \o DirEntries(dlist, existing, noaccess,
                                        "create directory", "check directory permissions")]

\* The fonts of a list that exist in none of the directories, in list order
\* (the found/break loop of check_system_fonts and check_office_fonts).
MissingIn(fs, dlist, fonts) ==
    SelectSeq(fonts, LAMBDA n : \A i \in DOMAIN dlist : ~Exists(fs, dlist[i], n))

\* check_system_fonts (body after get_font_dirs returned).
check_system_fonts_report(rep, sys, fs) ==
    LET missing_fonts == MissingIn(fs, get_font_dirs(sys), required_fonts(sys))
    IN  IF missing_fonts # <<>>
        THEN [rep EXCEPT
                !.missing_fonts = missing_fonts,
                !.issues = Append(@, Entry("missing critical fonts", missing_fonts)),
                !.suggestions = Append(@, Entry("reinstall system or restore default fonts", <<>>))]
        ELSE rep

\* ------------------------------------------------- cache and config prober
\* Outcomes of subprocess.run on an external command.
CmdOutcomes == {"ok", "nonzero", "not_installed"}

\* check_font_cache on Windows: the cache directory does not exist.
check_font_cache_windows_report(rep, cache_dir_exists) ==
    IF ~cache_dir_exists
    THEN [rep EXCEPT !.font_cache_issues = TRUE,
                     !.issues = Append(@, Entry("Windows font cache directory missing", <<>>))]
    ELSE rep

\* check_font_cache on Linux: fc-cache -v with check=True; only
\* CalledProcessError (non-zero exit) is caught.
check_font_cache_linux_raises(outcome) == outcome = "not_installed"

check_font_cache_linux_report(rep, outcome) ==
    IF outcome = "nonzero"
    THEN [rep EXCEPT !.font_cache_issues = TRUE,
                     !.issues = Append(@, Entry("Linux font cache problem", <<>>))]
    ELSE rep

\* check_font_config assigning a fresh issues list where the code appends.
check_font_config_report_assign(rep, sys, outcome) ==
    IF sys # "Linux" \/ outcome = "ok" THEN rep
    ELSE [rep EXCEPT !.issues = <<Entry("fontconfig not installed", <<>>)>>,
                     !.suggestions = Append(@, Entry("install fontconfig", <<>>))]

\* check_font_config (Linux only): fc-match sans-serif without check=True;
\* FileNotFoundError is caught.
check_font_config_report(rep, sys, outcome) ==
    IF sys # "Linux" THEN rep
    ELSE CASE outcome = "nonzero" ->
                [rep EXCEPT !.issues = Append(@, Entry("font config cannot match basic font", <<>>))]
           [] outcome = "not_installed" ->
                [rep EXCEPT !.issues = Append(@, Entry("fontconfig not installed", <<>>)),
                            !.suggestions = Append(@, Entry("install fontconfig", <<>>))]
           [] OTHER -> rep

\* check_locale_settings (Linux only): outcome "ok" is an output that holds
\* en_US.UTF-8, "other_locale" one that does not, "error" any exception of
\* subprocess.run (all caught).
LocaleOutcomes == {"ok", "other_locale", "error"}

check_locale_settings_report(rep, sys, outcome) ==
    IF sys = "Linux" /\ outcome = "other_locale"
    THEN [rep EXCEPT !.issues = Append(@, Entry("locale may not support some fonts", <<>>)),
                     !.suggestions = Append(@, Entry("set LANG=en_US.UTF-8", <<>>))]
    ELSE rep

\* ------------------------------------------------------ third-party scanner
\* check_adobe_fonts: adobe_font_dir is the state of the CoreSync directory:
\* "absent", "has_lst" (a *.lst file is listed), "no_lst" (none is) or
\* "listdir_error" (os.listdir raises; caught).
AdobeDirStates == {"absent", "has_lst", "no_lst", "listdir_error"}

check_adobe_fonts_report(rep, adobe_font_dir) ==
    IF adobe_font_dir = "no_lst"
    THEN [rep EXCEPT
            !.software_specific_issues =
                AppendUnder(@, "Adobe", Entry("Adobe font cache file missing", <<>>)),
            !.suggestions = Append(@, Entry("reset Adobe font preferences", <<>>))]
    ELSE rep

\* check_office_fonts; a KeyError of get_font_dirs is caught by its try block.
check_office_fonts_report(rep, sys, env, fs) ==
    IF get_font_dirs_raises(sys, env) THEN rep
    ELSE LET missing == MissingIn(fs, get_font_dirs(sys), office_fonts)
         IN  IF missing # <<>>
             THEN [rep EXCEPT
                     !.software_specific_issues =
                         AppendUnder(@, "Microsoft Office", Entry("Office fonts missing", missing)),
                     !.suggestions = Append(@, Entry("reinstall Office or install its fonts", <<>>))]
             ELSE rep

\* common_ides of check_ide_fonts, in dictionary order; each application has
\* two candidate install paths.
common_ides == <<"VSCode", "IntelliJ">>

IdePaths(ide) ==
    IF ide = "VSCode"
    THEN <<"~/.vscode", "~/AppData/Roaming/Code">>
    ELSE <<"~/.IntelliJIdea*", "~/Library/Preferences/IntelliJIdea*">>

\* Font families a configuration file may name.
IdeFamilies == {"Fira Code"}

\* State of the configuration file under one candidate path: "absent" (no glob
\* match, or no file), "malformed" (json.load / ET.parse / elem.text.strip()
\* raises; caught), "no_family" (the key is missing or its value is empty), or
\* the configured font family.
ConfigStates == {"absent", "malformed", "no_family"} \cup IdeFamilies

FontExtensions == <<".ttf", ".otf", ".ttc">>

FontFile(family, ext) ==
    CASE ext = ".ttf" /\ family = "Fira Code" -> "Fira Code.ttf"
      [] ext = ".otf" /\ family = "Fira Code" -> "Fira Code.otf"
      [] ext = ".ttc" /\ family = "Fira Code" -> "Fira Code.ttc"
      [] OTHER -> "?"

\* The available flag of check_ide_font_config: some directory holds
\* {font_family}{ext} for some extension.
FamilyAvailable(fs, dlist, family) ==
    \E i \in DOMAIN dlist : \E e \in DOMAIN FontExtensions :
        Exists(fs, dlist[i], FontFile(family, FontExtensions[e]))

\* check_ide_font_config(ide_name, config_path, font_setting_key); every
\* exception, the KeyError of get_font_dirs included, is caught.
check_ide_font_config_report(rep, sys, env, fs, ide_name, config) ==
    IF config \in IdeFamilies
    THEN IF get_font_dirs_raises(sys, env) THEN rep
         ELSE IF ~FamilyAvailable(fs, get_font_dirs(sys), config)
              THEN [rep EXCEPT
                      !.software_specific_issues =
                          AppendUnder(@, ide_name, Entry("configured font not available", <<config>>)),
                      !.suggestions = Append(@, Entry("change font in settings of", <<ide_name>>))]
              ELSE rep
    ELSE rep

\* The inner loop of check_ide_fonts for one application: the first candidate
\* path whose configuration file exists is checked, then break.
FirstConfig(cfgs, ide) ==
    LET paths == IdePaths(ide)
        present == SelectSeq(paths, LAMBDA p : cfgs[p] # "absent")
    IN  IF present = <<>> THEN "absent" ELSE cfgs[present[1]]

\* The inner loop without the break: every candidate path that holds a
\* configuration file is checked.
check_ide_app_report_nobreak(rep, sys, env, fs, cfgs, ide) ==
    LET paths == IdePaths(ide)
        r1 == IF cfgs[paths[1]] = "absent" THEN rep
              ELSE check_ide_font_config_report(rep, sys, env, fs, ide, cfgs[paths[1]])
    IN  IF cfgs[paths[2]] = "absent" THEN r1
        ELSE check_ide_font_config_report(r1, sys, env, fs, ide, cfgs[paths[2]])

check_ide_app_report(rep, sys, env, fs, cfgs, ide) ==
    IF FirstConfig(cfgs, ide) = "absent" THEN rep
    ELSE check_ide_font_config_report(rep, sys, env, fs, ide, FirstConfig(cfgs, ide))

\* check_ide_fonts: cfgs maps every candidate path to its ConfigState.
check_ide_fonts_report(rep, sys, env, fs, cfgs) ==
    check_ide_app_report(
        check_ide_app_report(rep, sys, env, fs, cfgs, common_ides[1]),
        sys, env, fs, cfgs, common_ides[2])

AllIdePaths == Range(IdePaths("VSCode")) \cup Range(IdePaths("IntelliJ"))

\* check_software_specific_issues, up to its call of check_ide_fonts.
check_software_specific_issues_report(rep, sys, env, fs, adobe_installed, adobe_font_dir, office_installed) ==
    LET r1 == IF sys = "Windows" /\ adobe_installed
              THEN check_adobe_fonts_report(rep, adobe_font_dir) ELSE rep
    IN  IF sys = "Windows" /\ office_installed
        THEN check_office_fonts_report(r1, sys, env, fs) ELSE r1

\* ---------------------------------------------------------------- integrity
\* check_font_integrity without the break: every directory that holds the font
\* is verified.
check_font_integrity_report_nobreak(rep, sys, fs, unreadable) ==
    LET dlist == get_font_dirs(sys)
        fonts == critical_fonts(sys)
        pairs == [k \in 1..(Len(fonts) * Len(dlist)) |->
                    [name |-> fonts[((k - 1) \div Len(dlist)) + 1],
                     dir  |-> dlist[((k - 1) % Len(dlist)) + 1]]]
        failing == SelectSeq(pairs, LAMBDA q :
                      /\ Exists(fs, q.dir, q.name)
                      /\ ~verify_font_integrity(ContentOf(fs, q.dir, q.name),
                                                q.name \notin unreadable, q.name))
    IN  [rep EXCEPT !.font_integrity_issues = @ \o [i \in DOMAIN failing |-> failing[i].name]]

\* check_font_integrity (body after get_font_dirs returned): for each critical
\* font the file in the first directory that holds it is verified; unreadable
\* is the set of critical fonts whose file cannot be read.
check_font_integrity_report(rep, sys, fs, unreadable) ==
    LET dlist == get_font_dirs(sys)
        failing == SelectSeq(critical_fonts(sys), LAMBDA n :
                      /\ FirstDirWith(fs, dlist, n) # 0
                      /\ ~verify_font_integrity(
                              ContentOf(fs, dlist[FirstDirWith(fs, dlist, n)], n),
                              n \notin unreadable, n))
    IN  [rep EXCEPT !.font_integrity_issues = @ \o failing]

\* ---------------------------------------------------------------------- dpi
\* Outcomes of the display-settings query of check_dpi_scaling.
\*   Windows: LogPixels value "96" / "120" / "144" / "192", or "query_failed";
\*   Linux:   gsettings output "1" / "2" / "3", or "query_failed" (non-zero exit
\*            or any exception);
\*   Darwin:  "default" (a Resolution line without the scaled marker), "scaled",
\*            or "query_failed" (no Resolution line, or any exception).
DpiOutcomes(sys) ==
    CASE sys = "Windows" -> {"96", "120", "144", "192", "query_failed"}
      [] sys = "Linux"   -> {"1", "2", "3", "query_failed"}
      [] sys = "Darwin"  -> {"default", "scaled", "query_failed"}
      [] OTHER           -> {"not_queried"}

DpiStandard(sys, outcome) ==
    CASE sys = "Windows" -> outcome \in {"96", "120", "144"}
      [] sys = "Linux"   -> outcome \in {"1", "2"}
      [] sys = "Darwin"  -> outcome = "default"
      [] OTHER           -> TRUE

check_dpi_scaling_report(rep, sys, outcome) ==
    IF outcome \in {"query_failed", "not_queried"} \/ DpiStandard(sys, outcome) THEN rep
    ELSE CASE sys = "Windows" ->
                [rep EXCEPT
                    !.dpi_scaling_issues = Append(@, Entry("non-standard DPI setting", <<outcome>>)),
                    !.suggestions = Append(@, Entry("set DPI to 96, 120 or 144", <<>>))]
           [] sys = "Linux" ->
                [rep EXCEPT
                    !.dpi_scaling_issues = Append(@, Entry("non-standard scaling setting", <<outcome>>))]
           [] sys = "Darwin" ->
                [rep EXCEPT
                    !.dpi_scaling_issues = Append(@, Entry("scaled display resolution", <<>>))]
           [] OTHER -> rep

\* -------------------------------------------------------- report aggregator
Section(header, entries) == [header |-> header, entries |-> entries]

\* A section printed whether or not it has entries.
OptionalSection_always(header, entries) == <<Section(header, entries)>>

OptionalSection(header, entries) ==
    IF entries # <<>> THEN <<Section(header, entries)>> ELSE <<>>

\* The per-application lines of the rendered report, one per key.
SoftwareLines(ssi) ==
    LET order == SelectSeq(<<"Adobe", "Microsoft Office", "VSCode", "IntelliJ">>,
                           LAMBDA k : k \in DOMAIN ssi)
    IN  [i \in DOMAIN order |-> Entry(order[i], <<>>)]

\* generate_report, the printed part: the sections in print order.
Render(rep) ==
    <<Section("system", <<rep.system>>)>>
    \o (IF rep.issues # <<>>
        THEN <<Section("issues", rep.issues)>>
        ELSE <<Section("no major issues found", <<>>)>>)
    \o OptionalSection("missing fonts", rep.missing_fonts)
    \o OptionalSection("corrupted fonts", rep.corrupted_fonts)
    \o OptionalSection("font integrity issues", rep.font_integrity_issues)
    \o OptionalSection("DPI/scaling issues", rep.dpi_scaling_issues)
    \o (IF DOMAIN rep.software_specific_issues # {}
        THEN <<Section("software specific issues", SoftwareLines(rep.software_specific_issues))>>
        ELSE <<>>)
    \o OptionalSection("suggestions", rep.suggestions)

\* ------------------------------------------------------------ initial state
\* The last external command run by subprocess.run and how it ended.
Ran(cmd, status) == [cmd |-> cmd, status |-> status]

\* File names the font directories may hold: the critical fonts of the
\* platform, the fonts an editor configuration may name and, on Windows, the
\* Office fonts.
FontNamesFor(sys) ==
    Range(required_fonts(sys)) \cup {"Fira Code.otf"}
    \cup (IF sys = "Windows" THEN Range(office_fonts) ELSE {})

ContentsFor(name) ==
    IF name \in DOMAIN known_font_hashes THEN {Genuine(name), AlteredBytes} ELSE {Genuine(name)}

FontFiles(sys, ds) ==
    {f \in [dir : ds, name : FontNamesFor(sys),
            content : FontNamesFor(sys) \cup {AlteredBytes}] :
        f.content \in ContentsFor(f.name)}

OneFilePerPath(fs) ==
    \A f, g \in fs : (f.dir = g.dir /\ f.name = g.name) => f = g

Bounded(S, n) == {x \in SUBSET S : Cardinality(x) <= n}

Init ==
    /\ system \in Systems
    /\ report = NewReport(system)
    /\ environ \in (IF system = "Windows" THEN SUBSET EnvVars ELSE {{}})
    /\ dirs \in {ds \in SUBSET Range(FontDirList(system)) :
                    Cardinality(Range(FontDirList(system)) \ ds) <= MaxAnomalies}
    /\ files \in {fs \in Bounded(FontFiles(system, dirs), MaxFiles) : OneFilePerPath(fs)}
    \* Directories that cannot be resolved are never read: one filesystem stands
    \* for all of them.
    /\ get_font_dirs_raises(system, environ) =>
            dirs = Range(FontDirList(system)) /\ files = {}
    /\ pc = "menu"
    /\ exc = "none"
    /\ printed = <<>>
    /\ report_file = <<>>
    /\ last_cmd = Ran("none", "none")
    /\ passes = 0
    /\ installs = 0
    /\ anomalies = Cardinality(Range(FontDirList(system)) \ dirs)
    /\ verified = <<>>
    /\ scanned = <<>>

\* ------------------------------------------------------------------ actions
Running == exc = "none" /\ pc # "exited"

\* The environment gives n more abnormal answers.
Spend(n) == anomalies + n <= MaxAnomalies /\ anomalies' = anomalies + n

Cost(b) == IF b THEN 1 ELSE 0

\* An uncaught exception leaves the handler and, main() having no handler,
\* ends the process at the statement that raised it.
Raise(e) ==
    /\ exc' = e
    /\ UNCHANGED <<report, pc, printed, report_file>>

EnvUnchanged == UNCHANGED <<system, environ, dirs, files, verified, scanned>>

\* Menu choice 1: run_full_diagnostics starts its first check.
run_full_diagnostics ==
    /\ Running /\ pc = "menu"
    /\ passes < MaxPasses
    /\ passes' = passes + 1
    /\ pc' = "check_font_directories"
    /\ UNCHANGED <<report, exc, printed, report_file, last_cmd, installs, anomalies>>
    /\ EnvUnchanged

check_font_directories ==
    /\ Running /\ pc = "check_font_directories"
    /\ IF get_font_dirs_raises(system, environ)
       THEN Raise("KeyError") /\ UNCHANGED anomalies
       ELSE \E noaccess \in SUBSET (dirs \cap Range(get_font_dirs(system))) :
                /\ Spend(Cardinality(noaccess))
                /\ report' = check_font_directories_report(report, get_font_dirs(system),
                                                           dirs, noaccess)
                /\ pc' = "check_font_cache"
                /\ UNCHANGED <<exc, printed, report_file>>
    /\ UNCHANGED <<last_cmd, passes, installs>>
    /\ EnvUnchanged

\* check_font_cache probing with the forced rebuild of fix_font_cache.
check_font_cache_rebuilds ==
    /\ Running /\ pc = "check_font_cache"
    /\ CASE system = "Windows" ->
                /\ IF "LOCALAPPDATA" \notin environ
                   THEN Raise("KeyError") /\ UNCHANGED anomalies
                   ELSE \E cache_dir_exists \in BOOLEAN :
                            /\ Spend(Cost(~cache_dir_exists))
                            /\ report' = check_font_cache_windows_report(report, cache_dir_exists)
                            /\ pc' = "check_system_fonts"
                            /\ UNCHANGED <<exc, printed, report_file>>
                /\ UNCHANGED last_cmd
         [] system = "Linux" ->
                \E outcome \in CmdOutcomes :
                    /\ Spend(Cost(outcome # "ok"))
                    /\ last_cmd' = Ran("fc-cache -f -v", outcome)
                    /\ IF check_font_cache_linux_raises(outcome)
                       THEN Raise("FileNotFoundError")
                       ELSE /\ report' = check_font_cache_linux_report(report, outcome)
                            /\ pc' = "check_system_fonts"
                            /\ UNCHANGED <<exc, printed, report_file>>
         [] OTHER ->
                /\ pc' = "check_system_fonts"
                /\ UNCHANGED <<report, exc, printed, report_file, last_cmd, anomalies>>
    /\ UNCHANGED <<passes, installs>>
    /\ EnvUnchanged

check_font_cache ==
    /\ Running /\ pc = "check_font_cache"
    /\ CASE system = "Windows" ->
                /\ IF "LOCALAPPDATA" \notin environ
                   THEN Raise("KeyError") /\ UNCHANGED anomalies
                   ELSE \E cache_dir_exists \in BOOLEAN :
                            /\ Spend(Cost(~cache_dir_exists))
                            /\ report' = check_font_cache_windows_report(report, cache_dir_exists)
                            /\ pc' = "check_system_fonts"
                            /\ UNCHANGED <<exc, printed, report_file>>
                /\ UNCHANGED last_cmd
         [] system = "Linux" ->
                \E outcome \in CmdOutcomes :
                    /\ Spend(Cost(outcome # "ok"))
                    /\ last_cmd' = Ran("fc-cache -v", outcome)
                    /\ IF check_font_cache_linux_raises(outcome)
                       THEN Raise("FileNotFoundError")
                       ELSE /\ report' = check_font_cache_linux_report(report, outcome)
                            /\ pc' = "check_system_fonts"
                            /\ UNCHANGED <<exc, printed, report_file>>
         [] OTHER ->
                /\ pc' = "check_system_fonts"
                /\ UNCHANGED <<report, exc, printed, report_file, last_cmd, anomalies>>
    /\ UNCHANGED <<passes, installs>>
    /\ EnvUnchanged

check_system_fonts ==
    /\ Running /\ pc = "check_system_fonts"
    /\ IF required_fonts(system) # <<>> /\ get_font_dirs_raises(system, environ)
       THEN Raise("KeyError")
       ELSE /\ report' = check_system_fonts_report(report, system, files)
            /\ pc' = "check_font_config"
            /\ UNCHANGED <<exc, printed, report_file>>
    /\ UNCHANGED <<last_cmd, passes, installs, anomalies>>
    /\ EnvUnchanged

check_font_config ==
    /\ Running /\ pc = "check_font_config"
    /\ \E outcome \in (IF system = "Linux" THEN CmdOutcomes ELSE {"ok"}) :
        /\ Spend(Cost(outcome # "ok"))
        /\ report' = check_font_config_report(report, system, outcome)
        /\ last_cmd' = IF system = "Linux" THEN Ran("fc-match sans-serif", outcome) ELSE last_cmd
    /\ pc' = "check_locale_settings"
    /\ UNCHANGED <<exc, printed, report_file, passes, installs>>
    /\ EnvUnchanged

check_locale_settings ==
    /\ Running /\ pc = "check_locale_settings"
    /\ \E outcome \in (IF system = "Linux" THEN LocaleOutcomes ELSE {"ok"}) :
        /\ Spend(Cost(outcome = "other_locale"))
        /\ report' = check_locale_settings_report(report, system, outcome)
        /\ last_cmd' = IF system = "Linux"
                       THEN Ran("locale", IF outcome = "error" THEN "error" ELSE "ok")
                       ELSE last_cmd
    /\ pc' = "check_software_specific_issues"
    /\ UNCHANGED <<exc, printed, report_file, passes, installs>>
    /\ EnvUnchanged

\* The states of the candidate configuration files considered: every state for
\* the first candidate path of an application and, behind a first path that
\* holds a file, a second path that holds none or one naming a font family.
IdeConfigs ==
    {c \in [AllIdePaths -> ConfigStates] :
        \A i \in DOMAIN common_ides :
            LET paths == IdePaths(common_ides[i])
            IN  c[paths[1]] # "absent" => c[paths[2]] \in {"absent"} \cup IdeFamilies}

\* Detected applications: "not_installed", or for Adobe the state of its
\* CoreSync directory.
AdobeStates(sys) == IF sys = "Windows" THEN {"not_installed"} \cup AdobeDirStates
                                        ELSE {"not_installed"}

check_software_specific_issues ==
    /\ Running /\ pc = "check_software_specific_issues"
    /\ \E adobe \in AdobeStates(system),
          office_installed \in (IF system = "Windows" THEN BOOLEAN ELSE {FALSE}) :
        LET next == check_software_specific_issues_report(
                        report, system, environ, files, adobe # "not_installed", adobe,
                        office_installed)
        IN  /\ Spend(Cost(next # report))
            /\ report' = next
    /\ pc' = "check_ide_fonts"
    /\ UNCHANGED <<exc, printed, report_file, last_cmd, passes, installs>>
    /\ EnvUnchanged

\* check_ide_fonts, the last call of check_software_specific_issues.
check_ide_fonts ==
    /\ Running /\ pc = "check_ide_fonts"
    /\ \E cfgs \in IdeConfigs :
        LET next == check_ide_fonts_report(report, system, environ, files, cfgs)
        IN  /\ Spend(Cost(next # report))
            /\ report' = next
    /\ pc' = "check_font_integrity"
    /\ UNCHANGED <<exc, printed, report_file, last_cmd, passes, installs>>
    /\ EnvUnchanged

\* Critical fonts that some resolved directory holds.
FoundFonts(sys, fs) ==
    {n \in Range(critical_fonts(sys)) : FirstDirWith(fs, get_font_dirs(sys), n) # 0}

check_font_integrity ==
    /\ Running /\ pc = "check_font_integrity"
    /\ IF critical_fonts(system) # <<>> /\ get_font_dirs_raises(system, environ)
       THEN Raise("KeyError") /\ UNCHANGED anomalies
       ELSE \E unreadable \in SUBSET FoundFonts(system, files) :
                /\ Spend(Cardinality(unreadable))
                /\ report' = check_font_integrity_report(report, system, files, unreadable)
                /\ pc' = "check_dpi_scaling"
                /\ UNCHANGED <<exc, printed, report_file>>
    /\ UNCHANGED <<last_cmd, passes, installs>>
    /\ EnvUnchanged

DpiCommand(sys) ==
    CASE sys = "Linux"  -> "gsettings get org.gnome.desktop.interface scaling-factor"
      [] sys = "Darwin" -> "system_profiler SPDisplaysDataType"
      [] OTHER          -> "none"

check_dpi_scaling ==
    /\ Running /\ pc = "check_dpi_scaling"
    /\ \E outcome \in DpiOutcomes(system) :
        /\ Spend(Cost(~DpiStandard(system, outcome) /\ outcome # "query_failed"))
        /\ report' = check_dpi_scaling_report(report, system, outcome)
        /\ last_cmd' = IF DpiCommand(system) # "none"
                       THEN Ran(DpiCommand(system),
                                IF outcome = "query_failed" THEN "error" ELSE "ok")
                       ELSE last_cmd
    /\ pc' = "generate_report"
    /\ UNCHANGED <<exc, printed, report_file, passes, installs>>
    /\ EnvUnchanged

\* generate_report: print the sections, then open the report path for writing
\* and dump the report; open() is outside any try block.
generate_report ==
    /\ Running /\ pc = "generate_report"
    /\ printed' = Render(report)
    /\ \E writable \in BOOLEAN :
        /\ Spend(Cost(~writable))
        /\ IF writable
           THEN /\ report_file' = <<report>>
                /\ pc' = "menu"
                /\ UNCHANGED exc
           ELSE /\ exc' = "OSError"
                /\ UNCHANGED <<pc, report_file>>
    /\ UNCHANGED <<report, last_cmd, passes, installs>>
    /\ EnvUnchanged

\* ------------------------------------------------------- repair operations
\* Menu choice 2: fix_font_cache. On Linux fc-cache -f -v runs with check=True
\* and only CalledProcessError is caught; elsewhere manual steps are printed.
fix_font_cache ==
    /\ Running /\ pc = "menu"
    /\ IF system = "Linux"
       THEN \E outcome \in CmdOutcomes :
                /\ Spend(Cost(outcome # "ok"))
                /\ exc' = IF outcome = "not_installed" THEN "FileNotFoundError" ELSE exc
                /\ last_cmd' = Ran("fc-cache -f -v", outcome)
       ELSE UNCHANGED <<exc, last_cmd, anomalies>>
    /\ UNCHANGED <<report, pc, printed, report_file, passes, installs>>
    /\ EnvUnchanged

\* Outcomes of the try block of install_font.
InstallOutcomes(sys, target_exists) ==
    {"ok", "copy_failed"}
    \cup (IF target_exists THEN {} ELSE {"makedirs_failed"})
    \cup (IF sys = "Linux" THEN {"cache_nonzero", "cache_not_installed"} ELSE {})

\* shutil.copy2(font_path, target_path): the target path now holds the source
\* content, whatever it held before.
CopyInto(fs, d, n, c) ==
    {f \in fs : ~(f.dir = d /\ f.name = n)} \cup {[dir |-> d, name |-> n, content |-> c]}

\* The report after the try block of install_font.
install_font_report(rep, name, outcome) ==
    IF outcome = "ok"
    THEN [rep EXCEPT !.suggestions = Append(@, Entry("new font installed", <<name>>))]
    ELSE [rep EXCEPT !.issues = Append(@, Entry("font install failed", <<name>>))]

\* Menu choice 3: install_font(font_path). The source file is outside the font
\* directories; name is its basename and content its bytes.
install_font ==
    /\ Running /\ pc = "menu"
    /\ installs < MaxInstalls
    /\ installs' = installs + 1
    /\ \E source_exists \in BOOLEAN, name \in FontNamesFor(system) :
       \E content \in ContentsFor(name) :
        IF ~source_exists
        THEN UNCHANGED <<report, exc, last_cmd, anomalies, dirs, files>>
        ELSE IF get_font_dirs_raises(system, environ)
        THEN /\ exc' = "KeyError"
             /\ UNCHANGED <<report, last_cmd, anomalies, dirs, files>>
        ELSE IF get_font_dirs(system) = <<>>
        THEN UNCHANGED <<report, exc, last_cmd, anomalies, dirs, files>>
        ELSE LET target_dir == get_font_dirs(system)[1] IN
             \E outcome \in InstallOutcomes(system, target_dir \in dirs) :
                /\ Spend(Cost(outcome # "ok"))
                /\ dirs' = IF outcome = "makedirs_failed" THEN dirs ELSE dirs \cup {target_dir}
                /\ files' = IF outcome \in {"makedirs_failed", "copy_failed"}
                            THEN files
                            ELSE CopyInto(files, target_dir, name, content)
                /\ last_cmd' = IF system = "Linux" /\ outcome \notin {"makedirs_failed", "copy_failed"}
                               THEN Ran("fc-cache -f -v",
                                        CASE outcome = "cache_nonzero" -> "nonzero"
                                          [] outcome = "cache_not_installed" -> "not_installed"
                                          [] OTHER -> "ok")
                               ELSE last_cmd
                /\ report' = install_font_report(report, name, outcome)
                /\ UNCHANGED exc
    /\ UNCHANGED <<system, environ, pc, printed, report_file, passes, verified, scanned>>

\* Menu choices 4 (restore_default_fonts), 5 (fix_dpi_scaling) and 6 (the
\* listing of the recorded per-application issues) print guidance or recorded
\* findings and change neither the tool object nor the environment.
restore_default_fonts ==
    /\ Running /\ pc = "menu"
    /\ UNCHANGED vars

fix_dpi_scaling ==
    /\ Running /\ pc = "menu"
    /\ UNCHANGED vars

list_software_issues ==
    /\ Running /\ pc = "menu"
    /\ UNCHANGED vars

\* Menu choice 7: leave the loop.
quit ==
    /\ Running /\ pc = "menu"
    /\ pc' = "exited"
    /\ UNCHANGED <<report, exc, printed, report_file, last_cmd, passes, installs, anomalies>>
    /\ EnvUnchanged

Next ==
    \/ run_full_diagnostics
    \/ check_font_directories
    \/ check_font_cache
    \/ check_system_fonts
    \/ check_font_config
    \/ check_locale_settings
    \/ check_software_specific_issues
    \/ check_ide_fonts
    \/ check_font_integrity
    \/ check_dpi_scaling
    \/ generate_report
    \/ fix_font_cache
    \/ install_font
    \/ restore_default_fonts
    \/ fix_dpi_scaling
    \/ list_software_issues
    \/ quit

Spec == Init /\ [][Next]_vars

\* A direct call verify_font_integrity(font_path, font_name) on a file of the
\* font directories, with any font name.
VerifyNames == DOMAIN known_font_hashes \cup Range(office_fonts) \cup {"Fira Code.otf"}

verify_font_integrity_call ==
    /\ verified = <<>>
    /\ \E f \in files, font_name \in VerifyNames, readable \in BOOLEAN :
        verified' = <<[path |-> f, font_name |-> font_name, readable |-> readable,
                       result |-> verify_font_integrity(f.content, readable, font_name)]>>
    /\ UNCHANGED <<system, report, environ, dirs, files, pc, exc, printed, report_file,
                   last_cmd, passes, installs, anomalies, scanned>>

\* The integrity verifier alone, on every file the initial states hold.
SpecVerify == Init /\ [][verify_font_integrity_call]_vars

\* Direct calls of check_ide_fonts made so far.
ScanCount == IF scanned = <<>> THEN 0 ELSE scanned[1].n

\* A direct call check_ide_fonts() with the candidate configuration files in
\* any state. run_full_diagnostics reaches the scan only after
\* check_font_directories resolved the font directories without raising.
check_ide_fonts_call ==
    /\ ~get_font_dirs_raises(system, environ)
    /\ ScanCount < MaxScans
    /\ \E cfgs \in [AllIdePaths -> ConfigStates] :
        /\ report' = check_ide_fonts_report(report, system, environ, files, cfgs)
        /\ scanned' = <<[n |-> ScanCount + 1,
                         cfgs |-> cfgs, before |-> report]>>
    /\ UNCHANGED <<system, environ, dirs, files, pc, exc, printed, report_file,
                   last_cmd, passes, installs, anomalies, verified>>

\* The third-party scanner alone, on every filesystem the initial states hold.
SpecScan == Init /\ [][check_ide_fonts_call]_vars

\* ------------------------------------------------------------------- claims
IsPrefix(s, t) == Len(s) <= Len(t) /\ \A i \in DOMAIN s : s[i] = t[i]

Count(s, x) == Cardinality({i \in DOMAIN s : s[i] = x})

\* Every key keeps its entries, in order.
KeysGrow(a, b) == DOMAIN a \subseteq DOMAIN b /\ \A k \in DOMAIN a : IsPrefix(a[k], b[k])

\* The positions run_full_diagnostics is at while one of its eight checks runs
\* (check_ide_fonts is the last call of the sixth).
CheckPcs == {"check_font_directories", "check_font_cache", "check_system_fonts",
             "check_font_config", "check_locale_settings",
             "check_software_specific_issues", "check_ide_fonts",
             "check_font_integrity", "check_dpi_scaling"}

\* The critical fonts no resolved directory holds in the current state.
AbsentNow == MissingIn(files, get_font_dirs(system), required_fonts(system))

\* C1: whenever check_system_fonts has completed, report.missing_fonts is
\* exactly the list of critical fonts that exist in none of the resolved
\* directories at that moment, also on a second pass after an installation.
C1_MissingFontsExact ==
    pc = "check_font_config" => report.missing_fonts = AbsentNow

\* C2: when fc-cache is not installed, check_font_cache records exactly one
\* font-cache issue (the flag set, one entry appended to issues) and the pass
\* goes on to the next check.
C2_MissingCacheToolIsRecorded ==
    [][(pc = "check_font_cache" /\ last_cmd' = Ran("fc-cache -v", "not_installed"))
        => /\ exc' = "none"
           /\ pc' = "check_system_fonts"
           /\ report'.font_cache_issues
           /\ Len(report'.issues) = Len(report.issues) + 1]_vars

\* C3: no failure inside one of the eight checks ends the pass: while
\* run_full_diagnostics is at a check, no exception has left it.
C3_NoCheckFailureEndsThePass ==
    pc \in CheckPcs => exc = "none"

\* C4: persisting the report never fails the run: no exception leaves
\* generate_report, whether the report path is writable or not.
C4_PersistFailureNotRaised ==
    pc = "generate_report" => exc = "none"

\* The part of append-only that holds of every field but missing_fonts.
GrowsButMissingFonts(r, t) ==
    /\ t.system = r.system
    /\ IsPrefix(r.issues, t.issues)
    /\ IsPrefix(r.suggestions, t.suggestions)
    /\ IsPrefix(r.corrupted_fonts, t.corrupted_fonts)
    /\ IsPrefix(r.font_integrity_issues, t.font_integrity_issues)
    /\ IsPrefix(r.dpi_scaling_issues, t.dpi_scaling_issues)
    /\ KeysGrow(r.software_specific_issues, t.software_specific_issues)
    /\ (r.font_cache_issues => t.font_cache_issues)

\* C5 (as claimed): the report is append-only: system never changes and every
\* step keeps every recorded entry of every field, missing_fonts included.
C5_ReportAppendOnly ==
    [][/\ GrowsButMissingFonts(report, report')
       /\ IsPrefix(report.missing_fonts, report'.missing_fonts)]_vars

\* C5 (amended): system never changes and issues, suggestions, corrupted_fonts,
\* font_integrity_issues, dpi_scaling_issues and software_specific_issues only
\* grow, font_cache_issues never goes back to false; missing_fonts changes only
\* in check_system_fonts, which overwrites it with the non-empty list of the
\* critical fonts absent at that moment.
C5_AppendOnlyButMissingFonts ==
    [][/\ GrowsButMissingFonts(report, report')
       /\ report'.missing_fonts # report.missing_fonts
            => /\ pc = "check_system_fonts"
               /\ AbsentNow # <<>>
               /\ report'.missing_fonts = AbsentNow]_vars

\* A second pass has overwritten missing_fonts with a list that dropped a font
\* recorded by the first.
C5_Witness ==
    /\ passes = 2 /\ pc = "check_font_config"
    /\ \E i, j \in DOMAIN report.issues :
        /\ i < j
        /\ report.issues[i].msg = "missing critical fonts"
        /\ report.issues[j].msg = "missing critical fonts"
        /\ report.missing_fonts = report.issues[j].args
        /\ ~IsPrefix(report.issues[i].args, report.issues[j].args)

\* The recorded direct calls of verify_font_integrity.
Calls == Range(verified)

DigestDiffers(c) ==
    /\ c.font_name \in DOMAIN known_font_hashes
    /\ md5(c.path.content) # known_font_hashes[c.font_name]

\* C6 (as claimed): for a font name without an entry in the known-hash table
\* verify_font_integrity returns true whatever the file, unreadable files
\* included; it returns false only on a digest that differs from its entry.
C6_NoReferenceAlwaysPasses ==
    \A c \in Calls :
        /\ c.font_name \notin DOMAIN known_font_hashes => c.result
        /\ ~c.result => DigestDiffers(c)

\* C6 (amended): for a font name without an entry verify_font_integrity returns
\* true for every file that can be read; it returns false exactly when the file
\* cannot be read or an entry exists and the computed digest differs from it.
C6_NoReferencePassesWhenReadable ==
    \A c \in Calls :
        /\ (c.font_name \notin DOMAIN known_font_hashes /\ c.readable) => c.result
        /\ ~c.result <=> (~c.readable \/ DigestDiffers(c))

\* A readable file with altered bytes was verified under a name that has no
\* entry, and passed.
C6_Witness ==
    \E c \in Calls :
        /\ c.font_name \notin DOMAIN known_font_hashes
        /\ c.readable /\ c.path.content = AlteredBytes
        /\ c.result

\* The file check_font_integrity verifies for a critical font differs from the
\* font's reference digest.
Mismatched(n) ==
    LET dlist == get_font_dirs(system)
        first == FirstDirWith(files, dlist, n)
    IN  /\ first # 0
        /\ md5(ContentOf(files, dlist[first], n)) # known_font_hashes[n]

NotFound(n) == FirstDirWith(files, get_font_dirs(system), n) = 0

\* C7 (as claimed): after check_font_integrity a critical font whose verified
\* file differs from its reference digest is in font_integrity_issues exactly
\* once, and a critical font found in no directory is not in it.
C7_CorruptFontListedOnce ==
    pc = "check_dpi_scaling" =>
        \A n \in Range(critical_fonts(system)) :
            /\ Mismatched(n) => Count(report.font_integrity_issues, n) = 1
            /\ NotFound(n) => Count(report.font_integrity_issues, n) = 0

\* C7 (amended): every execution of check_font_integrity appends a critical
\* font whose verified file (the one in the first directory that holds it)
\* differs from its reference digest exactly once, in however many directories
\* the file exists, and appends no font found in no directory.
C7_CorruptFontAppendedOncePerCheck ==
    [][(pc = "check_font_integrity" /\ pc' = "check_dpi_scaling") =>
        \A n \in Range(critical_fonts(system)) :
            /\ Mismatched(n) => Count(report'.font_integrity_issues, n)
                                    = Count(report.font_integrity_issues, n) + 1
            /\ NotFound(n) => Count(report'.font_integrity_issues, n)
                                    = Count(report.font_integrity_issues, n)]_vars

\* check_font_integrity has run on a critical font that two directories hold,
\* the first of them with altered bytes, and listed it once.
C7_Witness ==
    /\ pc = "check_dpi_scaling"
    /\ \E n \in Range(critical_fonts(system)) :
        /\ Mismatched(n)
        /\ Cardinality({d \in dirs : Exists(files, d, n)}) >= 2
        /\ Count(report.font_integrity_issues, n) = 1

Headers(p) == {p[i].header : i \in DOMAIN p}

ReportSections == {"issues", "missing fonts", "corrupted fonts", "font integrity issues",
                   "DPI/scaling issues", "software specific issues", "suggestions"}

HasEntries(rep, h) ==
    CASE h = "issues"                   -> rep.issues # <<>>
      [] h = "missing fonts"            -> rep.missing_fonts # <<>>
      [] h = "corrupted fonts"          -> rep.corrupted_fonts # <<>>
      [] h = "font integrity issues"    -> rep.font_integrity_issues # <<>>
      [] h = "DPI/scaling issues"       -> rep.dpi_scaling_issues # <<>>
      [] h = "software specific issues" -> DOMAIN rep.software_specific_issues # {}
      [] h = "suggestions"              -> rep.suggestions # <<>>

\* C8 (as claimed): the rendered report holds a section if and only if its
\* report field is non-empty, and nothing is printed in place of an empty one.
C8_SectionIffNonEmpty ==
    [][pc = "generate_report" =>
        /\ \A h \in ReportSections : h \in Headers(printed') <=> HasEntries(report, h)
        /\ Headers(printed') \subseteq ReportSections \cup {"system"}]_vars

\* C8 (amended): the rendered report holds a section if and only if its report
\* field is non-empty, except that when issues is empty the line "no major
\* issues found" is printed in place of the issues section.
C8_SectionIffNonEmptyButIssues ==
    [][pc = "generate_report" =>
        /\ \A h \in ReportSections : h \in Headers(printed') <=> HasEntries(report, h)
        /\ Headers(printed') \subseteq
                ReportSections \cup {"system", "no major issues found"}
        /\ "no major issues found" \in Headers(printed') <=> report.issues = <<>>]_vars

\* A report with issues and no DPI/scaling issue was printed: the issues
\* section is there and the DPI/scaling section is not.
C8_Witness ==
    /\ pc = "menu" /\ printed # <<>>
    /\ "issues" \in Headers(printed)
    /\ "DPI/scaling issues" \notin Headers(printed)
    /\ report.dpi_scaling_issues = <<>>

\* C9: every execution of check_dpi_scaling that appends a scaling issue
\* appends one remediation suggestion with it, and one whose settings query
\* failed appends nothing.
C9_ScalingIssueHasSuggestion ==
    [][pc = "check_dpi_scaling" =>
        /\ Len(report'.dpi_scaling_issues) - Len(report.dpi_scaling_issues)
            = Len(report'.suggestions) - Len(report.suggestions)
        /\ (last_cmd'.status = "error" => report' = report)]_vars

\* C10: on an unrecognized platform every check of a full pass is a no-op: it
\* raises nothing and leaves the report as it was.
C10_UnrecognizedPlatformChecksAreNoOps ==
    [][(get_font_dirs(system) = <<>> /\ required_fonts(system) = <<>> /\ pc \in CheckPcs)
        => (exc' = "none" /\ report' = report)]_vars

\* The recorded direct calls of check_ide_fonts.
Scans == Range(scanned)

\* The configuration file of a detected application: the one under the first
\* of its candidate install paths that holds one.
DetectedConfig(cfgs, ide) ==
    IF cfgs[IdePaths(ide)[1]] # "absent" THEN cfgs[IdePaths(ide)[1]]
    ELSE cfgs[IdePaths(ide)[2]]

\* The detected configuration names a font family that no resolved font
\* directory holds under any of the three extensions.
NamesMissingFamily(cfgs, ide) ==
    /\ DetectedConfig(cfgs, ide) \in IdeFamilies
    /\ \A d \in Range(get_font_dirs(system)) : \A x \in {"ttf", "otf", "ttc"} :
            ~\E f \in files : f.dir = d /\ f.name = DetectedConfig(cfgs, ide) \o "." \o x

IssuesUnder(rep, ide) ==
    IF ide \in DOMAIN rep.software_specific_issues
    THEN rep.software_specific_issues[ide] ELSE <<>>

SuggestionsFor(rep, ide) ==
    Cardinality({i \in DOMAIN rep.suggestions : rep.suggestions[i].args = <<ide>>})

\* C11: one scan appends, for each application whose detected configuration
\* file names a font family that no resolved font directory holds, exactly one
\* issue naming the family under the application's key and exactly one
\* suggestion, however many candidate paths hold a configuration file; for
\* every other application it appends nothing.
C11_OneIssuePerApplicationPerScan ==
    \A c \in Scans : \A ide \in Range(common_ides) :
        IF NamesMissingFamily(c.cfgs, ide)
        THEN /\ Len(IssuesUnder(report, ide)) = Len(IssuesUnder(c.before, ide)) + 1
             /\ IsPrefix(IssuesUnder(c.before, ide), IssuesUnder(report, ide))
             /\ IssuesUnder(report, ide)[Len(IssuesUnder(report, ide))].args
                    = <<DetectedConfig(c.cfgs, ide)>>
             /\ SuggestionsFor(report, ide) = SuggestionsFor(c.before, ide) + 1
        ELSE /\ IssuesUnder(report, ide) = IssuesUnder(c.before, ide)
             /\ SuggestionsFor(report, ide) = SuggestionsFor(c.before, ide)

\* A second scan found configuration files naming a missing family under both
\* candidate paths of an application and added one issue to the one the first
\* scan had recorded.
C11_Witness ==
    \E c \in Scans : \E ide \in Range(common_ides) :
        /\ c.n = 2
        /\ c.cfgs[IdePaths(ide)[1]] \in IdeFamilies
        /\ c.cfgs[IdePaths(ide)[2]] \in IdeFamilies
        /\ NamesMissingFamily(c.cfgs, ide)
        /\ Len(IssuesUnder(c.before, ide)) = 1
        /\ Len(IssuesUnder(report, ide)) = 2

\* The external commands of the cache and config probes.
ProbeCommands == {"fc-cache -v", "fc-match sans-serif", "locale"}

\* The probe of this step ran its command and the command exited non-zero or
\* its executable was missing.
ProbeCommandFailed ==
    /\ pc \in {"check_font_cache", "check_font_config", "check_locale_settings"}
    /\ system = "Linux"
    /\ last_cmd'.cmd \in ProbeCommands
    /\ last_cmd'.status \in {"nonzero", "not_installed", "error"}

\* C12: in check_font_cache, check_font_config and check_locale_settings a
\* command that exits non-zero or whose executable is missing raises nothing
\* out of the probe and appends one entry to issues and one to suggestions.
C12_CommandFailureBecomesPair ==
    [][ProbeCommandFailed =>
        /\ exc' = "none"
        /\ Len(report'.issues) = Len(report.issues) + 1
        /\ Len(report'.suggestions) = Len(report.suggestions) + 1]_vars

\* The forced cache rebuild of fix_font_cache and install_font.
ForcedRebuild == "fc-cache -f -v"

\* C13: no step of a diagnostic pass (run_full_diagnostics, each check,
\* generate_report) runs the forced cache rebuild or creates, copies or deletes
\* a file or directory of the font directories; only a repair or installation
\* selected from the menu does.
C13_ProbesNeverRepair ==
    [][(pc # "menu" \/ pc' # "menu") =>
        /\ dirs' = dirs
        /\ files' = files
        /\ (last_cmd'.cmd = ForcedRebuild => last_cmd' = last_cmd)]_vars

\* After an installation that ran the forced rebuild, a second pass has probed
\* the cache with the plain command and the installed file is in place.
C13_Witness ==
    /\ system = "Linux" /\ passes = 2 /\ pc = "check_system_fonts"
    /\ last_cmd = Ran("fc-cache -v", "ok")
    /\ \E i \in DOMAIN report.suggestions :
        /\ report.suggestions[i].msg = "new font installed"
        /\ \E f \in files : <<f.name>> = report.suggestions[i].args

====
